---- MODULE Spec2Model ----
(***************************************************************************)
(* Model of the IRS Form 990 ingestion pipeline of bonin1/analyzer:        *)
(* the import controller (datasetController.importDataset), the ingestion  *)
(* orchestrator (DatasetService.processDataset / processXmlFile), the      *)
(* mapper's outcome (Form990Parser.parse) and the persistence layer        *)
(* (DatasetService.saveToDatabase) over the three tables companies,        *)
(* personnel and expense_categories; the read handlers of the companies    *)
(* controller with the delta and analytics helpers; and the guards of the  *)
(* dataset, register and users routes over table users.                    *)
(***************************************************************************)
EXTENDS Integers, Sequences, FiniteSets, TLC

(* ------------------------------ bounds --------------------------------- *)
\* Largest number of XML files the expanded archive holds.
MaxFiles == 3
\* Largest maxCompanies value a request carries.
MaxCap == 2
\* Number of distinct EINs the documents bear.
NumEin == 2
\* Number of distinct filings (scalar fields + children) per EIN.
NumVer == 2
\* Largest number of XML files of an archive in the error-sample runs.
MaxManyFiles == 12
\* Largest number of accounts in table users.
MaxUsers == 3
\* Largest number of officer entries of a document handed to the mapper.
MaxOfficers == 2

VARIABLES
  pc,          \* position of the single ingestion run
  cap,         \* processDataset's maxCompanies (0 stands for null/undefined: falsy)
  tempPath,    \* TRUE once downloadZipFile has returned the archive path
  extractPath, \* TRUE once extractZipFile has resolved
  archiveFile, \* the downloaded archive exists on disk
  extractDir,  \* the expanded working directory exists on disk
  xmlFiles,    \* candidate documents found by getXmlFiles (file ids, in order)
  filesToProcess, \* xmlFiles, truncated to maxCompanies
  idx,         \* index in filesToProcess of the loop's current document
  stats,       \* the run's statistics object
  xmlContent,  \* the document read by processXmlFile
  data,        \* parsedData handed to saveToDatabase
  companyId,   \* company.id returned by Company.upsert
  companies,   \* table companies: set of rows
  personnel,   \* table personnel: rows in insertion order
  expenses,    \* table expense_categories: rows in insertion order
  nextId,      \* AUTO_INCREMENT of companies.id
  response,    \* HTTP response of importDataset
  outcomes,    \* history: what happened to each document the loop took up
  lastCall,    \* history: the latest saveToDatabase call (record, status)
  prevCall,    \* history: the saveToDatabase call before the latest
  lastFor,     \* history: per EIN, the latest saveToDatabase call
  served,      \* the companies handler that answered the request ("none": no request yet)
  company,     \* the companies row the handler read (company.toJSON())
  deltas,      \* the deltas object the handler computed for the row
  staffingArg, \* history: the argument calculateStaffingGrowth was invoked with
  reply,       \* HTTP response of the companies handler
  users,       \* table users: set of rows
  tokens,      \* the JWT payloads generateToken has issued
  hits,        \* datasetLimiter: requests counted in the current window
  authRes,     \* the latest POST /api/dataset request and what the route did with it
  tree,        \* the parsed XML tree handed to the mapper (xmlParser.parse's result)
  mapped,      \* what Form990Parser.parse returned for the tree
  savers       \* per concurrent request: position and locals of its saveToDatabase call

\* State of the ingestion run.
ingestVars == <<pc, cap, tempPath, extractPath, archiveFile, extractDir, xmlFiles,
                filesToProcess, idx, stats, xmlContent, data, companyId, companies,
                personnel, expenses, nextId, response, outcomes, lastCall, prevCall,
                lastFor>>
\* State of the companies read handlers.
analyticsVars == <<served, company, deltas, staffingArg, reply>>
\* State of the accounts and the guarded routes.
authVars == <<users, tokens, hits, authRes>>
\* State of one mapper call, and of the concurrent saveToDatabase calls.
mapperVars == <<tree, mapped, savers>>
\* What the ingestion run leaves alone.
apiVars == <<analyticsVars, authVars, mapperVars>>

vars == <<ingestVars, analyticsVars, authVars, mapperVars>>

Min(a, b) == IF a < b THEN a ELSE b

(* ----------------------------- documents ------------------------------- *)
Eins == 1..NumEin
Vers == 1..NumVer

\* Expense category vocabulary (the first names of extractExpenses's table).
Categories == <<"Grants and similar amounts paid", "Compensation of officers",
                "Other salaries and wages", "Pension and benefits">>

NoDoc == [readable |-> FALSE, wellFormed |-> FALSE, hasForm |-> FALSE, ein |-> 0, ver |-> 0]

\* A document of the archive: whether readFile succeeds, whether the markup
\* is well formed, whether a form variant key is under the payload, the
\* filer's EIN (0: none in the return header) and the filing it carries.
Docs ==
  { [readable |-> FALSE, wellFormed |-> TRUE, hasForm |-> TRUE, ein |-> 1, ver |-> 1],
    [readable |-> TRUE, wellFormed |-> FALSE, hasForm |-> TRUE, ein |-> 1, ver |-> 1],
    [readable |-> TRUE, wellFormed |-> TRUE, hasForm |-> FALSE, ein |-> 1, ver |-> 1],
    [readable |-> TRUE, wellFormed |-> TRUE, hasForm |-> TRUE, ein |-> 0, ver |-> 1] }
  \cup
  { [readable |-> TRUE, wellFormed |-> TRUE, hasForm |-> TRUE, ein |-> e, ver |-> v] :
      e \in Eins, v \in Vers }

\* The filing v of an organization: v officers and v-1 expense categories.
PersonnelOf(v) == [i \in 1..v |-> [fullName |-> <<"officer", v, i>>, title |-> "Unknown"]]
ExpensesOf(v) ==
  [i \in 1..Min(v - 1, Len(Categories)) |-> [category |-> Categories[i], amount |-> v]]

TaxYr == 2023

NullData == [isNull |-> TRUE]

\* Form990Parser.parse: null on a parse exception, on a payload without a
\* form variant and on a return header without EIN; the canonical record
\* otherwise.
parse(doc) ==
  IF ~doc.wellFormed THEN NullData
  ELSE IF ~doc.hasForm THEN NullData
  ELSE IF doc.ein = 0 THEN NullData
  ELSE [isNull |-> FALSE,
        company |-> [ein |-> doc.ein, name |-> doc.ver, taxYear |-> TaxYr],
        personnel |-> PersonnelOf(doc.ver),
        expenses |-> ExpensesOf(doc.ver)]

MappingFailure(doc) ==
  IF ~doc.wellFormed THEN "malformed"
  ELSE IF ~doc.hasForm THEN "noform"
  ELSE "noein"

(* ------------------------------ statistics ----------------------------- *)
\* stats.errors is declared twice in the object literal; the later key wins,
\* so the property starts as the empty array.
EmptyErrors == [isArray |-> TRUE, items |-> <<>>, num |-> 0]

InitStats == [totalFiles |-> 0, processed |-> 0, saved |-> 0, errors |-> EmptyErrors]

NaN == -1

\* JavaScript ToNumber of an array: [] is "" is 0; an array holding one
\* message string is that string, which is no number.
ArrayToNumber(items) == IF items = <<>> THEN 0 ELSE NaN

\* Mutant: the catch block has no stats.errors++ and the array is kept.
PostIncrement_m(e) == e

\* stats.errors++ : the property becomes the number ToNumber(old) + 1.
PostIncrement(e) ==
  LET n == IF e.isArray THEN ArrayToNumber(e.items) ELSE e.num
  IN [isArray |-> FALSE, items |-> <<>>, num |-> IF n = NaN THEN NaN ELSE n + 1]

\* stats.errors.push exists only while the property is an array.
HasPush(e) == e.isArray
ArrayPush(e, msg) == [e EXCEPT !.items = Append(e.items, msg)]

(* --------------------------------- Init -------------------------------- *)
\* No companies row read, no deltas computed, no ladder call, no request yet.
NoRow == [id |-> 0]
NullDelta == [absolute |-> [null |-> TRUE], percentage |-> [null |-> TRUE]]
NoDeltas == [computed |-> FALSE]
NotCalled == [called |-> FALSE]
NoRequest == [route |-> "none"]

NoCall == [status |-> "none", ein |-> 0, name |-> 0]
\* No tree handed to the mapper, no mapper result, no concurrent request yet.
NoTree == [given |-> FALSE]
NotMapped == [returned |-> FALSE]
Savers == {1, 2}
IdleSaver == [pc |-> "idle"]

Init ==
  /\ pc = "idle"
  /\ cap = 0
  /\ tempPath = FALSE
  /\ extractPath = FALSE
  /\ archiveFile = FALSE
  /\ extractDir = FALSE
  /\ xmlFiles = <<>>
  /\ filesToProcess = <<>>
  /\ idx = 1
  /\ stats = InitStats
  /\ xmlContent = NoDoc
  /\ data = NullData
  /\ companyId = 0
  /\ companies = {}
  /\ personnel = <<>>
  /\ expenses = <<>>
  /\ nextId = 1
  /\ response = [status |-> 0]
  /\ outcomes = <<>>
  /\ lastCall = NoCall
  /\ prevCall = NoCall
  /\ lastFor = [e \in Eins |-> NoCall]
  /\ served = "none"
  /\ company = NoRow
  /\ deltas = NoDeltas
  /\ staffingArg = NotCalled
  /\ reply = [status |-> 0]
  /\ users = {}
  /\ tokens = {}
  /\ hits = 0
  /\ authRes = NoRequest
  /\ tree = NoTree
  /\ mapped = NotMapped
  /\ savers = [p \in Savers |-> IdleSaver]


(* ------------------------- importDataset (controller) ------------------ *)
Undefined == -1
ErrorSample == 10

\* res.json of importDataset for the statistics processDataset returned:
\* stats.errors.slice exists only on an array.
SuccessResponse(s) ==
  IF s.errors.isArray
    THEN [status |-> 200,
          statistics |-> [totalFiles |-> s.totalFiles, processed |-> s.processed,
                          saved |-> s.saved, errors |-> s.errors.items],
          errors |-> SubSeq(s.errors.items, 1, Min(ErrorSample, Len(s.errors.items)))]
    ELSE [status |-> 500]

\* POST /api/dataset: validation of the body, then the run starts.
importDataset ==
  /\ pc = "idle"
  /\ \E url \in {"missing", "invalid", "valid"}, maxCompanies \in {Undefined} \cup (0..MaxCap) :
       IF url = "missing" \/ url = "invalid"
            \/ (maxCompanies # Undefined /\ maxCompanies < 1)
         THEN /\ pc' = "rejected"
              /\ response' = [status |-> 400]
              /\ UNCHANGED cap
         ELSE /\ pc' = "downloading"
              /\ cap' = IF maxCompanies = Undefined THEN 0 ELSE maxCompanies
              /\ UNCHANGED response
  /\ UNCHANGED <<tempPath, extractPath, archiveFile, extractDir, xmlFiles,
                 filesToProcess, idx, stats, xmlContent, data, companyId,
                 companies, personnel, expenses, nextId, outcomes, lastCall,
                 prevCall, lastFor>>
  /\ UNCHANGED apiVars

(* ------------------------------ processDataset ------------------------- *)
\* The outer catch of processDataset: unlink the archive when tempPath is
\* set, rethrow; importDataset answers 500.
OuterCatch ==
  /\ archiveFile' = IF tempPath THEN FALSE ELSE archiveFile
  /\ pc' = "failed"
  /\ response' = [status |-> 500]

downloadZipFile ==
  /\ pc = "downloading"
  /\ tempPath' = TRUE
  /\ archiveFile' = TRUE
  /\ pc' = "extracting"
  /\ UNCHANGED <<cap, extractPath, extractDir, xmlFiles, filesToProcess, idx,
                 stats, xmlContent, data, companyId, companies, personnel,
                 expenses, nextId, response, outcomes, lastCall, prevCall, lastFor>>
  /\ UNCHANGED apiVars

downloadZipFile_throws ==
  /\ pc = "downloading"
  /\ OuterCatch
  /\ UNCHANGED <<cap, tempPath, extractPath, extractDir, xmlFiles, filesToProcess,
                 idx, stats, xmlContent, data, companyId, companies, personnel,
                 expenses, nextId, outcomes, lastCall, prevCall, lastFor>>
  /\ UNCHANGED apiVars

extractZipFile ==
  /\ pc = "extracting"
  /\ extractDir' = TRUE
  /\ extractPath' = TRUE
  /\ pc' = "enumerating"
  /\ UNCHANGED <<cap, tempPath, archiveFile, xmlFiles, filesToProcess, idx, stats,
                 xmlContent, data, companyId, companies, personnel, expenses,
                 nextId, response, outcomes, lastCall, prevCall, lastFor>>
  /\ UNCHANGED apiVars

\* Mutant: the stream's error is swallowed and the run goes on.
extractZipFile_throws_m ==
  /\ pc = "extracting"
  /\ extractDir' = TRUE
  /\ pc' = "enumerating"
  /\ UNCHANGED <<cap, tempPath, extractPath, archiveFile, xmlFiles, filesToProcess,
                 idx, stats, xmlContent, data, companyId, companies, personnel,
                 expenses, nextId, response, outcomes, lastCall, prevCall, lastFor>>
  /\ UNCHANGED apiVars

\* The 7zip stream reports an error after ensureDirectoryExists made the
\* working directory.
extractZipFile_throws ==
  /\ pc = "extracting"
  /\ extractDir' = TRUE
  /\ OuterCatch
  /\ UNCHANGED <<cap, tempPath, extractPath, xmlFiles, filesToProcess, idx, stats,
                 xmlContent, data, companyId, companies, personnel, expenses,
                 nextId, outcomes, lastCall, prevCall, lastFor>>
  /\ UNCHANGED apiVars

\* Mutant: the candidate list is never truncated; only the early stop on the
\* number of saved companies bounds the run.
Truncate_m(files, m) == files

\* xmlFiles.slice(0, maxCompanies) when maxCompanies is truthy.
Truncate(files, m) == IF m # 0 THEN SubSeq(files, 1, Min(m, Len(files))) ELSE files

getXmlFiles ==
  /\ pc = "enumerating"
  /\ \E n \in 0..MaxFiles :
       /\ xmlFiles' = [i \in 1..n |-> i]
       /\ stats' = [stats EXCEPT !.totalFiles = n]
       /\ filesToProcess' = Truncate(xmlFiles', cap)
  /\ idx' = 1
  /\ pc' = "loop"
  /\ UNCHANGED <<cap, tempPath, extractPath, archiveFile, extractDir, xmlContent,
                 data, companyId, companies, personnel, expenses, nextId, response,
                 outcomes, lastCall, prevCall, lastFor>>
  /\ UNCHANGED apiVars

getXmlFiles_throws ==
  /\ pc = "enumerating"
  /\ OuterCatch
  /\ UNCHANGED <<cap, tempPath, extractPath, extractDir, xmlFiles, filesToProcess,
                 idx, stats, xmlContent, data, companyId, companies, personnel,
                 expenses, nextId, outcomes, lastCall, prevCall, lastFor>>
  /\ UNCHANGED apiVars

\* The catch block of the per-document loop, entered with statistics s:
\* stats.errors++ and then stats.errors.push(errorMessage). A push on a value
\* that is no array throws a TypeError out of the loop into the outer catch.
CatchBlock(s, msg) ==
  LET e1 == PostIncrement(s.errors) IN
  IF HasPush(e1)
    THEN /\ stats' = [s EXCEPT !.errors = ArrayPush(e1, msg)]
         /\ idx' = idx + 1
         /\ pc' = "loop"
         /\ UNCHANGED <<archiveFile, response>>
    ELSE /\ stats' = [s EXCEPT !.errors = e1]
         /\ OuterCatch
         /\ UNCHANGED idx

\* Mutant: the loop breaks at the first saved company.
AfterProcess_m(s) ==
  /\ stats' = s
  /\ IF cap # 0 /\ s.saved >= 1
       THEN pc' = "cleanup" /\ UNCHANGED idx
       ELSE pc' = "loop" /\ idx' = idx + 1
  /\ UNCHANGED <<archiveFile, response>>

\* After processXmlFile returned normally with statistics s: break when the
\* cap of saved companies is reached, else take the next document.
AfterProcess(s) ==
  /\ stats' = s
  /\ IF cap # 0 /\ s.saved >= cap
       THEN pc' = "cleanup" /\ UNCHANGED idx
       ELSE pc' = "loop" /\ idx' = idx + 1
  /\ UNCHANGED <<archiveFile, response>>

\* Mutant: processXmlFile forgets stats.processed++.
Started_m(s) == s

Started(s) == [s EXCEPT !.processed = s.processed + 1]

\* processXmlFile: readFile rejects.
processXmlFile_readError ==
  /\ pc = "loop"
  /\ idx <= Len(filesToProcess)
  /\ \E doc \in Docs :
       /\ ~doc.readable
       /\ xmlContent' = doc
  /\ CatchBlock(Started(stats), <<filesToProcess[idx], "read">>)
  /\ outcomes' = Append(outcomes, "readError")
  /\ UNCHANGED <<cap, tempPath, extractPath, extractDir, xmlFiles, filesToProcess,
                 data, companyId, companies, personnel, expenses, nextId,
                 lastCall, prevCall, lastFor>>
  /\ UNCHANGED apiVars

\* Mutant: a null from the mapper is thrown as an error of the document.
processXmlFile_parseNull_m ==
  /\ pc = "loop"
  /\ idx <= Len(filesToProcess)
  /\ \E doc \in Docs :
       /\ doc.readable
       /\ parse(doc).isNull
       /\ xmlContent' = doc
       /\ outcomes' = Append(outcomes, MappingFailure(doc))
  /\ CatchBlock(Started(stats), <<filesToProcess[idx], "parse">>)
  /\ UNCHANGED <<cap, tempPath, extractPath, extractDir, xmlFiles, filesToProcess,
                 data, companyId, companies, personnel, expenses, nextId,
                 lastCall, prevCall, lastFor>>
  /\ UNCHANGED apiVars

\* processXmlFile: the mapper returns null; warn and return.
processXmlFile_parseNull ==
  /\ pc = "loop"
  /\ idx <= Len(filesToProcess)
  /\ \E doc \in Docs :
       /\ doc.readable
       /\ parse(doc).isNull
       /\ xmlContent' = doc
       /\ outcomes' = Append(outcomes, MappingFailure(doc))
  /\ AfterProcess(Started(stats))
  /\ UNCHANGED <<cap, tempPath, extractPath, extractDir, xmlFiles, filesToProcess,
                 data, companyId, companies, personnel, expenses, nextId,
                 lastCall, prevCall, lastFor>>
  /\ UNCHANGED apiVars

CallOf(d, st) == [status |-> st, ein |-> d.company.ein, name |-> d.company.name]

\* processXmlFile: the mapper returns a record; saveToDatabase is entered.
processXmlFile_parsed ==
  /\ pc = "loop"
  /\ idx <= Len(filesToProcess)
  /\ \E doc \in Docs :
       /\ doc.readable
       /\ ~parse(doc).isNull
       /\ xmlContent' = doc
       /\ data' = parse(doc)
  /\ stats' = Started(stats)
  /\ pc' = "upsert"
  /\ prevCall' = lastCall
  /\ lastCall' = CallOf(data', "running")
  /\ lastFor' = [lastFor EXCEPT ![data'.company.ein] = CallOf(data', "running")]
  /\ UNCHANGED <<cap, tempPath, extractPath, archiveFile, extractDir, xmlFiles,
                 filesToProcess, idx, companyId, companies, personnel, expenses,
                 nextId, response, outcomes>>
  /\ UNCHANGED apiVars


(* ------------------------------ saveToDatabase ------------------------- *)
RowWithEin(rows, ein) == CHOOSE r \in rows : r.ein = ein

\* Mutant: a conflicting ein is ignored instead of updated (INSERT IGNORE).
Upsert_m(rows, values, newId) ==
  IF \E r \in rows : r.ein = values.ein
    THEN rows
    ELSE rows \cup {[id |-> newId, ein |-> values.ein, name |-> values.name,
                     taxYear |-> values.taxYear]}

\* Company.upsert(values, {conflictFields: ['ein']}): insert when no row
\* bears the ein, else overwrite the scalar fields of the row that does.
Upsert(rows, values, newId) ==
  IF \E r \in rows : r.ein = values.ein
    THEN { IF r.ein = values.ein
             THEN [r EXCEPT !.name = values.name, !.taxYear = values.taxYear]
             ELSE r : r \in rows }
    ELSE rows \cup {[id |-> newId, ein |-> values.ein, name |-> values.name,
                     taxYear |-> values.taxYear]}

\* Mutant: the delete of the old child rows is lost.
Destroy_m(table, id) == table

\* Model.destroy({where: {companyId}}).
Destroy(table, id) == SelectSeq(table, LAMBDA r : r.companyId # id)

\* personnel.map(p => ({...p, companyId, taxYear})) and the expenses' map.
PersonnelRows(d, id) ==
  [i \in 1..Len(d.personnel) |->
     [companyId |-> id, fullName |-> d.personnel[i].fullName,
      title |-> d.personnel[i].title, taxYear |-> d.company.taxYear]]
ExpenseRows(d, id) ==
  [i \in 1..Len(d.expenses) |->
     [companyId |-> id, category |-> d.expenses[i].category,
      amount |-> d.expenses[i].amount, taxYear |-> d.company.taxYear]]

\* Model.bulkCreate(rows): the rows are appended to the table.
BulkCreate(table, rows) == table \o rows

\* saveToDatabase returned: stats.saved++ in processXmlFile, then the loop's
\* limit check.
SaveReturned ==
  /\ AfterProcess([stats EXCEPT !.saved = stats.saved + 1])
  /\ outcomes' = Append(outcomes, "saved")
  /\ lastCall' = CallOf(data, "ok")
  /\ lastFor' = [lastFor EXCEPT ![data.company.ein] = CallOf(data, "ok")]

\* Mutant: the loop does not await the rest of the save.
SaveContinues_m(next) ==
  /\ pc' = "loop"
  /\ UNCHANGED <<idx, stats, archiveFile, response, outcomes, lastCall, lastFor>>

SaveContinues(next) ==
  /\ pc' = next
  /\ UNCHANGED <<idx, stats, archiveFile, response, outcomes, lastCall, lastFor>>

\* Where saveToDatabase goes after the two deletes, and after the personnel
\* insert: a bulkCreate is awaited only for a non-empty list.
AfterDestroy ==
  IF Len(data.personnel) > 0 THEN SaveContinues("bulkPersonnel")
  ELSE IF Len(data.expenses) > 0 THEN SaveContinues("bulkExpenses")
  ELSE SaveReturned

AfterPersonnel ==
  IF Len(data.expenses) > 0 THEN SaveContinues("bulkExpenses") ELSE SaveReturned

saveToDatabase_upsert ==
  /\ pc = "upsert"
  /\ data.company.ein # 0
  /\ companies' = Upsert(companies, data.company, nextId)
  /\ nextId' = IF \E r \in companies : r.ein = data.company.ein THEN nextId ELSE nextId + 1
  /\ companyId' = RowWithEin(companies', data.company.ein).id
  /\ SaveContinues("destroyPersonnel")
  /\ UNCHANGED <<cap, tempPath, extractPath, extractDir, xmlFiles, filesToProcess,
                 xmlContent, data, personnel, expenses, prevCall>>
  /\ UNCHANGED apiVars

saveToDatabase_destroyPersonnel ==
  /\ pc = "destroyPersonnel"
  /\ personnel' = Destroy(personnel, companyId)
  /\ SaveContinues("destroyExpenses")
  /\ UNCHANGED <<cap, tempPath, extractPath, extractDir, xmlFiles, filesToProcess,
                 xmlContent, data, companyId, companies, expenses, nextId, prevCall>>
  /\ UNCHANGED apiVars

saveToDatabase_destroyExpenses ==
  /\ pc = "destroyExpenses"
  /\ expenses' = Destroy(expenses, companyId)
  /\ AfterDestroy
  /\ UNCHANGED <<cap, tempPath, extractPath, extractDir, xmlFiles, filesToProcess,
                 xmlContent, data, companyId, companies, personnel, nextId, prevCall>>
  /\ UNCHANGED apiVars

saveToDatabase_bulkPersonnel ==
  /\ pc = "bulkPersonnel"
  /\ personnel' = BulkCreate(personnel, PersonnelRows(data, companyId))
  /\ AfterPersonnel
  /\ UNCHANGED <<cap, tempPath, extractPath, extractDir, xmlFiles, filesToProcess,
                 xmlContent, data, companyId, companies, expenses, nextId, prevCall>>
  /\ UNCHANGED apiVars

saveToDatabase_bulkExpenses ==
  /\ pc = "bulkExpenses"
  /\ expenses' = BulkCreate(expenses, ExpenseRows(data, companyId))
  /\ SaveReturned
  /\ UNCHANGED <<cap, tempPath, extractPath, extractDir, xmlFiles, filesToProcess,
                 xmlContent, data, companyId, companies, personnel, nextId, prevCall>>
  /\ UNCHANGED apiVars

SavePcs == {"upsert", "destroyPersonnel", "destroyExpenses", "bulkPersonnel", "bulkExpenses"}

\* The awaited database call of the current step rejects (a constraint
\* violation, a lost connection): saveToDatabase throws into the loop's
\* catch block, the statement itself having changed nothing.
saveToDatabase_throws ==
  /\ pc \in SavePcs
  /\ CatchBlock(stats, <<filesToProcess[idx], "save">>)
  /\ outcomes' = Append(outcomes, "saveFailed")
  /\ lastCall' = CallOf(data, "failed")
  /\ lastFor' = [lastFor EXCEPT ![data.company.ein] = CallOf(data, "failed")]
  /\ UNCHANGED <<cap, tempPath, extractPath, extractDir, xmlFiles, filesToProcess,
                 xmlContent, data, companyId, companies, personnel, expenses,
                 nextId, prevCall>>
  /\ UNCHANGED apiVars

(* ------------------------- cleanup and return -------------------------- *)
\* Step 5 of processDataset, reached by the loop's end or its break:
\* deleteDirectory(extractPath), unlink(tempPath), return stats; importDataset
\* answers with the statistics.
processDataset_return ==
  /\ \/ pc = "cleanup"
     \/ pc = "loop" /\ idx > Len(filesToProcess)
  /\ extractDir' = FALSE
  /\ archiveFile' = IF tempPath THEN FALSE ELSE archiveFile
  /\ pc' = "returned"
  /\ response' = SuccessResponse(stats)
  /\ UNCHANGED <<cap, tempPath, extractPath, xmlFiles, filesToProcess, idx, stats,
                 xmlContent, data, companyId, companies, personnel, expenses,
                 nextId, outcomes, lastCall, prevCall, lastFor>>
  /\ UNCHANGED apiVars

Next ==
  \/ importDataset
  \/ downloadZipFile
  \/ downloadZipFile_throws
  \/ extractZipFile
  \/ extractZipFile_throws
  \/ getXmlFiles
  \/ getXmlFiles_throws
  \/ processXmlFile_readError
  \/ processXmlFile_parseNull
  \/ processXmlFile_parsed
  \/ saveToDatabase_upsert
  \/ saveToDatabase_destroyPersonnel
  \/ saveToDatabase_destroyExpenses
  \/ saveToDatabase_bulkPersonnel
  \/ saveToDatabase_bulkExpenses
  \/ saveToDatabase_throws
  \/ processDataset_return

Spec == Init /\ [][Next]_vars

TypeOK ==
  /\ pc \in {"idle", "rejected", "downloading", "extracting", "enumerating", "loop",
             "cleanup", "returned", "failed"} \cup SavePcs
  /\ cap \in 0..MaxCap
  /\ stats.processed \in 0..MaxFiles


(* ------------------- runs over archives of many files ------------------ *)
\* getXmlFiles for an archive of up to MaxManyFiles files.
getXmlFiles_large ==
  /\ pc = "enumerating"
  /\ \E n \in 0..MaxManyFiles :
       /\ xmlFiles' = [i \in 1..n |-> i]
       /\ stats' = [stats EXCEPT !.totalFiles = n]
       /\ filesToProcess' = Truncate(xmlFiles', cap)
  /\ idx' = 1
  /\ pc' = "loop"
  /\ UNCHANGED <<cap, tempPath, extractPath, archiveFile, extractDir, xmlContent,
                 data, companyId, companies, personnel, expenses, nextId, response,
                 outcomes, lastCall, prevCall, lastFor>>
  /\ UNCHANGED apiVars

\* Runs without a cap over archives whose documents all fail: each one is
\* unreadable or malformed.
NextSample ==
  \/ importDataset /\ cap' = 0
  \/ downloadZipFile
  \/ extractZipFile
  \/ getXmlFiles_large
  \/ processXmlFile_readError
  \/ processXmlFile_parseNull /\ ~xmlContent'.wellFormed
  \/ processDataset_return

SpecSample == Init /\ [][NextSample]_vars

(* ---------------------- numbers of the read handlers ------------------- *)
\* null in a nullable column of table companies.
Null == -1

RECURSIVE Gcd(_, _)
Gcd(a, b) == IF b = 0 THEN a ELSE Gcd(b, a % b)
Abs(x) == IF x < 0 THEN -x ELSE x

\* A JavaScript value that is null or a number; the number is the ratio n/d
\* in lowest terms with d > 0, so that equal numbers are equal values.
NullValue == [null |-> TRUE]
Ratio(n, d) ==
  LET g == Gcd(Abs(n), Abs(d))
      sgn == IF d < 0 THEN -1 ELSE 1
  IN [null |-> FALSE, n |-> sgn * (n \div g), d |-> sgn * (d \div g)]
Number(x) == [null |-> FALSE, n |-> x, d |-> 1]

\* ToNumber of the relational operators: null is +0.
ToNumber(v) == IF v.null THEN Number(0) ELSE v
\* a > b and a >= b of JavaScript on null-or-number operands.
Greater(a, b) == ToNumber(a).n * ToNumber(b).d > ToNumber(b).n * ToNumber(a).d
GreaterEq(a, b) == ToNumber(a).n * ToNumber(b).d >= ToNumber(b).n * ToNumber(a).d
\* a === k for an integer k: null is not strictly equal to a number.
StrictEquals(a, k) == ~a.null /\ a.n = k * a.d

\* Number.prototype.toFixed(2): the decimal string of the number rounded to
\* hundredths (ties away from zero); the string is kept as its hundredths.
ToFixed2(v) ==
  LET m == (2 * 100 * Abs(v.n) + v.d) \div (2 * v.d)
  IN [isString |-> TRUE, hundredths |-> IF v.n < 0 THEN -m ELSE m]

(* ------------------------------ dataHelper ----------------------------- *)
\* Mutant: the zero guard is missing; previous = 0 is treated as "no change".
calculatePercentageChange_m(current, previous) ==
  IF previous = Null THEN NullValue
  ELSE IF previous = 0 THEN Number(0)
  ELSE Ratio((current - previous) * 100, previous)

calculatePercentageChange(current, previous) ==
  IF previous = Null THEN NullValue
  ELSE IF previous = 0 THEN (IF current > 0 THEN Number(100) ELSE Number(0))
  ELSE Ratio((current - previous) * 100, previous)

calculateAbsoluteChange(current, previous) ==
  IF previous = Null THEN NullValue
  ELSE Number(current - previous)

(* ------------------------- companiesController ------------------------ *)
\* Rows of table companies the handlers read: the current-year columns hold
\* numbers, each previous-year column a number or null.
Rows ==
  [ id : {1},
    currentRevenue : {0, 90000, 150000},        previousRevenue : {Null, 0, 120000},
    currentExpenses : {0, 90000, 150000},       previousExpenses : {Null, 0, 100000},
    currentAssets : {0, 100000},                previousAssets : {Null, 0, 90000},
    currentEmployeeCount : {0, 40, 42, 44, 48, 50},
    previousEmployeeCount : {Null, 0, 40} ]

\* Mutant: only previousRevenue is inspected.
hasPreviousData_m(d) == d.previousRevenue # Null

\* const hasPreviousData = ... : all four previous-year fields are non-null.
hasPreviousData(d) ==
  /\ d.previousRevenue # Null
  /\ d.previousExpenses # Null
  /\ d.previousAssets # Null
  /\ d.previousEmployeeCount # Null

\* One entry of the deltas object literal.
DeltaPair(has, current, previous) ==
  [absolute |-> IF has THEN calculateAbsoluteChange(current, previous) ELSE NullValue,
   percentage |-> IF has THEN calculatePercentageChange(current, previous) ELSE NullValue]

\* The deltas object literal of getAllCompanies and of getCompanyById.
ComputeDeltas(d) ==
  LET has == hasPreviousData(d)
  IN [computed |-> TRUE,
      revenue |-> DeltaPair(has, d.currentRevenue, d.previousRevenue),
      expenses |-> DeltaPair(has, d.currentExpenses, d.previousExpenses),
      assets |-> DeltaPair(has, d.currentAssets, d.previousAssets),
      employees |-> DeltaPair(has, d.currentEmployeeCount, d.previousEmployeeCount)]

\* Mutant: an organization whose expenses grow as fast as its revenue counts
\* as scaling.
calculateClassification_m(d, dl) ==
  LET isProfitable == d.currentRevenue > d.currentExpenses
      isScaling == GreaterEq(dl.expenses.percentage, dl.revenue.percentage)
  IN IF isProfitable /\ ~isScaling THEN "Profitable"
     ELSE IF isScaling THEN "Scaling"
     ELSE "Restructuring"

calculateClassification(d, dl) ==
  LET isProfitable == d.currentRevenue > d.currentExpenses
      isScaling == Greater(dl.expenses.percentage, dl.revenue.percentage)
  IN IF isProfitable /\ ~isScaling THEN "Profitable"
     ELSE IF isScaling THEN "Scaling"
     ELSE "Restructuring"

\* Mutant: the first rung of the ladder is growthRate > 20.
calculateStaffingGrowth_m(employeeDelta) ==
  LET growthRate == employeeDelta.percentage
  IN IF Greater(growthRate, Number(20)) THEN "Rapid Growth"
     ELSE IF GreaterEq(growthRate, Number(10)) THEN "Steady Growth"
     ELSE IF Greater(growthRate, Number(0)) THEN "Modest Growth"
     ELSE IF StrictEquals(growthRate, 0) THEN "Stable"
     ELSE "Downsizing"

\* The badge of the ladder; a null growthRate fails every comparison and
\* falls into the last branch (Math.abs(null).toFixed(1) does not throw).
calculateStaffingGrowth(employeeDelta) ==
  LET growthRate == employeeDelta.percentage
  IN IF GreaterEq(growthRate, Number(20)) THEN "Rapid Growth"
     ELSE IF GreaterEq(growthRate, Number(10)) THEN "Steady Growth"
     ELSE IF Greater(growthRate, Number(0)) THEN "Modest Growth"
     ELSE IF StrictEquals(growthRate, 0) THEN "Stable"
     ELSE "Downsizing"

\* The financialHealth literal, evaluated when assets.percentage has toFixed.
FinancialHealth(d, dl) ==
  [netIncome |-> Number(d.currentRevenue - d.currentExpenses),
   profitMargin |-> IF d.currentRevenue > 0
                      THEN ToFixed2(Ratio((d.currentRevenue - d.currentExpenses) * 100,
                                          d.currentRevenue))
                      ELSE Number(0),
   assetGrowthRate |-> ToFixed2(dl.assets.percentage)]

\* GET /api/companies, for one row of the page: rows.map annotates it.
getAllCompanies ==
  /\ served = "none"
  /\ \E row \in Rows :
       /\ company' = row
       /\ deltas' = ComputeDeltas(row)
       /\ reply' = [status |-> 200, data |-> row, deltas |-> deltas']
  /\ served' = "getAllCompanies"
  /\ UNCHANGED <<staffingArg, ingestVars, authVars, mapperVars>>

\* GET /api/companies: findAndCountAll rejects; the catch answers 500.
getAllCompanies_throws ==
  /\ served = "none"
  /\ served' = "getAllCompanies"
  /\ reply' = [status |-> 500]
  /\ UNCHANGED <<company, deltas, staffingArg, ingestVars, authVars, mapperVars>>

\* GET /api/companies/:id: findByPk finds no row.
getCompanyById_notFound ==
  /\ served = "none"
  /\ served' = "getCompanyById"
  /\ reply' = [status |-> 404]
  /\ UNCHANGED <<company, deltas, staffingArg, ingestVars, authVars, mapperVars>>

\* GET /api/companies/:id for an existing row: deltas, then the analytics
\* literal. null.toFixed throws a TypeError, which the catch answers with 500.
getCompanyById ==
  /\ served = "none"
  /\ \E row \in Rows :
       /\ company' = row
       /\ deltas' = ComputeDeltas(row)
       /\ staffingArg' = [called |-> TRUE, arg |-> deltas'.employees]
       /\ reply' =
            IF deltas'.assets.percentage.null
              THEN [status |-> 500]
              ELSE [status |-> 200, data |-> row, deltas |-> deltas',
                    analytics |->
                      [classification |-> calculateClassification(row, deltas'),
                       staffingGrowth |-> calculateStaffingGrowth(deltas'.employees),
                       financialHealth |-> FinancialHealth(row, deltas')]]
  /\ served' = "getCompanyById"
  /\ UNCHANGED <<ingestVars, authVars, mapperVars>>

\* GET /api/companies/:id: findByPk rejects; the catch answers 500.
getCompanyById_throws ==
  /\ served = "none"
  /\ served' = "getCompanyById"
  /\ reply' = [status |-> 500]
  /\ UNCHANGED <<company, deltas, staffingArg, ingestVars, authVars, mapperVars>>

NextAnalytics ==
  \/ getAllCompanies
  \/ getAllCompanies_throws
  \/ getCompanyById_notFound
  \/ getCompanyById
  \/ getCompanyById_throws

SpecAnalytics == Init /\ [][NextAnalytics]_vars

(* ------------------------ accounts and route guards -------------------- *)
\* Usernames (each with its own email address).
Names == 1..MaxUsers
\* The roles of User.role, ENUM('admin', 'user').
Roles == {"user", "admin"}

\* A request without the auth_token cookie, and one whose cookie verifyToken
\* rejects (forged or expired); every other cookie is a payload generateToken
\* has signed.
NoToken == [id |-> 0, role |-> "none"]
BadToken == [id |-> 0, role |-> "invalid"]
Cookies == {NoToken, BadToken} \cup tokens

\* A middleware that calls next() instead of answering.
Pass == 0
\* datasetLimiter: max requests per window.
DatasetMax == 3

\* authenticate: the status it answers, or Pass with req.user = decoded.
authenticate(tok) ==
  IF tok = NoToken THEN 401
  ELSE IF tok \notin tokens THEN 401
  ELSE Pass

\* Mutant: every authenticated user is let through.
authorize_m(roles, user) == IF user = NoToken THEN 401 ELSE Pass

\* authorize(...roles) applied to req.user (NoToken: req.user is not set).
authorize(roles, user) ==
  IF user = NoToken THEN 401
  ELSE IF user.role \notin roles THEN 403
  ELSE Pass

\* The values of the X-API-Key header: absent and "" are falsy, a string that
\* differs from config.api.secretKey, and the secret key itself.
ApiKeys == {"absent", "empty", "wrong", "secret"}
Truthy(key) == key \notin {"absent", "empty"}

validateApiKey(key) ==
  IF ~Truthy(key) THEN 401
  ELSE IF key # "secret" THEN 403
  ELSE Pass

\* The two inline middlewares of router.post('/') in datasetRoutes.
DatasetGuard(key, tok) ==
  LET first == IF Truthy(key) THEN validateApiKey(key) ELSE authenticate(tok)
  IN IF first # Pass THEN first
     ELSE IF Truthy(key) THEN Pass
     ELSE authorize({"admin"}, tok)

\* POST /api/dataset: datasetLimiter, the guard, then importDataset.
postDataset ==
  /\ \E key \in ApiKeys, tok \in Cookies :
       LET n == hits + 1
           limited == n > DatasetMax
           st == IF limited THEN 429 ELSE DatasetGuard(key, tok)
       IN /\ hits' = Min(n, DatasetMax + 1)
          /\ authRes' = [route |-> "POST /api/dataset", key |-> key, token |-> tok,
                         limited |-> limited, status |-> st, reached |-> st = Pass]
  /\ UNCHANGED <<users, tokens, ingestVars, analyticsVars, mapperVars>>

\* The window of datasetLimiter elapses.
datasetLimiter_reset ==
  /\ hits > 0
  /\ hits' = 0
  /\ UNCHANGED <<users, tokens, authRes, ingestVars, analyticsVars, mapperVars>>

\* POST /api/auth/register: authLimiter (over: the client's window is used
\* up), registerValidation and validate, then the controller.
register ==
  /\ \E over \in BOOLEAN, username \in {0} \cup Names,
        role \in {"undefined", "user", "admin", "root"} :
       LET valid == username # 0 /\ role \in {"undefined"} \cup Roles
           existingUser == \E u \in users : u.username = username
           st == IF over THEN 429
                 ELSE IF ~valid THEN 400
                 ELSE IF existingUser THEN 409
                 ELSE 201
           user == [id |-> Cardinality(users) + 1, username |-> username,
                    role |-> IF role = "undefined" THEN "user" ELSE role]
       IN /\ st = 201 => Cardinality(users) < MaxUsers
          /\ users' = IF st = 201 THEN users \cup {user} ELSE users
          /\ tokens' = IF st = 201 THEN tokens \cup {[id |-> user.id, role |-> user.role]}
                       ELSE tokens
  /\ UNCHANGED <<hits, authRes, ingestVars, analyticsVars, mapperVars>>

\* POST /api/auth/login with the credentials of an (active) account: a token
\* with the account's current role is issued. A failed login changes nothing.
login ==
  /\ \E u \in users : tokens' = tokens \cup {[id |-> u.id, role |-> u.role]}
  /\ UNCHANGED <<users, hits, authRes, ingestVars, analyticsVars, mapperVars>>

\* PUT /api/users/:id: authenticate, then the handler. A username taken by
\* another account makes user.update reject (500).
putUser ==
  /\ \E tok \in Cookies, userId \in 1..MaxUsers, username \in {0} \cup Names,
        role \in {"undefined"} \cup Roles :
       LET isAdmin == tok.role = "admin"
           isOwnProfile == tok.id = userId
           found == \E u \in users : u.id = userId
           user == CHOOSE u \in users : u.id = userId
           taken == username # 0 /\ \E u \in users : u.username = username /\ u.id # userId
           st == IF authenticate(tok) # Pass THEN authenticate(tok)
                 ELSE IF ~isAdmin /\ ~isOwnProfile THEN 403
                 ELSE IF ~found THEN 404
                 ELSE IF taken THEN 500
                 ELSE 200
       IN users' =
            IF st = 200
              THEN (users \ {user}) \cup
                     {[user EXCEPT !.username = IF username # 0 THEN username ELSE @,
                                   !.role = IF isAdmin /\ role # "undefined" THEN role ELSE @]}
              ELSE users
  /\ UNCHANGED <<tokens, hits, authRes, ingestVars, analyticsVars, mapperVars>>

NextDataset ==
  \/ register
  \/ postDataset
  \/ datasetLimiter_reset

SpecDataset == Init /\ [][NextDataset]_vars

NextUsers ==
  \/ register
  \/ login
  \/ putUser

SpecUsers == Init /\ [][NextUsers]_vars

(* ------------------------ values of the parsed tree -------------------- *)
\* The values fast-xml-parser and the mapper handle, tagged by their typeof:
\* text content that reads as a number is a number (the parser is built with
\* the library's default parseTagValue), other text is a string, an element
\* with children or attributes is an object, a repeated element is an array.
JsUndefined == [t |-> "undefined"]
JsNull == [t |-> "null"]
JsNum(n) == [t |-> "number", n |-> n]
JsStr(s) == [t |-> "string", s |-> s]
JsObj(o) == [t |-> "object", o |-> o]
JsArr(a) == [t |-> "array", a |-> a]

\* !!value
IsTruthy(v) ==
  CASE v.t = "undefined" -> FALSE
    [] v.t = "null" -> FALSE
    [] v.t = "number" -> v.n # 0
    [] v.t = "string" -> v.s # ""
    [] OTHER -> TRUE
\* a || b
Or_m(a, b) == a
Or(a, b) == IF IsTruthy(a) THEN a ELSE b
\* v?.k, and v.k where v is known to be an object
Get(v, k) == IF v.t = "object" /\ k \in DOMAIN v.o THEN v.o[k] ELSE JsUndefined
\* String(value) of a number or a string; `${value}` of what extractText returns
String(v) ==
  CASE v.t = "number" -> ToString(v.n)
    [] v.t = "string" -> v.s
    [] v.t = "null" -> "null"
    [] v.t = "undefined" -> "undefined"
    [] OTHER -> "[object Object]"

(* ------------------- dataHelper: extractText, extractNumber ------------ *)
extractText(value) ==
  IF ~IsTruthy(value) THEN JsNull
  ELSE IF value.t = "string" THEN value
  ELSE IF value.t \in {"object", "array"}
       THEN Or(Or(Get(value, "_text"), Get(value, "_")), JsNull)
  ELSE JsStr(String(value))

\* String(text).replace(/[^0-9.-]/g, '') followed by parseFloat: the text
\* extractText made of a number is the number's decimal text, which the regular
\* expression leaves alone and parseFloat reads back; every other text of the
\* trees below holds no digit, '.' or '-', is stripped to '' and reads as NaN.
extractNumber_m(value) == value
extractNumber(value) ==
  LET text == extractText(value)
  IN IF ~IsTruthy(text) THEN JsNum(0)
     ELSE IF value.t = "number" /\ text = JsStr(ToString(value.n)) THEN JsNum(value.n)
     ELSE JsNum(0)

(* ------------------------------ Form990Parser -------------------------- *)
\* new Date().getFullYear() of the run.
ThisYear == 2026

extractCompanyInfo(parsed, irs990) ==
  LET returnHeader == Or(Get(Get(parsed, "Return"), "ReturnHeader"), JsObj(<<>>))
      filer == Or(Get(returnHeader, "Filer"), JsObj(<<>>))
      payload == Get(Get(parsed, "Return"), "ReturnData")
      formType ==
        IF IsTruthy(Get(payload, "IRS990EZ")) THEN "990EZ"
        ELSE IF IsTruthy(Get(payload, "IRS990PF")) THEN "990PF"
        ELSE IF IsTruthy(Get(payload, "IRS990T")) THEN "990T"
        ELSE "990"
  IN [ein |-> Or(extractText(Get(filer, "EIN")), JsNull),
      name |-> Or(Or(extractText(Get(Get(filer, "BusinessName"), "BusinessNameLine1Txt")),
                     extractText(Get(Get(filer, "Name"), "BusinessNameLine1"))),
                  JsStr("Unknown Organization")),
      formType |-> JsStr(formType),
      taxYear |-> Or(Or(extractNumber(Get(returnHeader, "TaxYr")),
                        extractNumber(Get(returnHeader, "TaxYear"))),
                     JsNum(ThisYear)),
      taxPeriodBegin |-> Or(Or(extractText(Get(returnHeader, "TaxPeriodBeginDt")),
                               extractText(Get(returnHeader, "TaxPeriodBeginDate"))),
                            JsNull),
      taxPeriodEnd |-> Or(Or(extractText(Get(returnHeader, "TaxPeriodEndDt")),
                             extractText(Get(returnHeader, "TaxPeriodEndDate"))),
                          JsNull),
      filingDate |-> Or(Or(extractText(Get(returnHeader, "ReturnTs")),
                           extractText(Get(returnHeader, "ReturnTimestamp"))),
                        JsNull),
      website |-> Or(Or(extractText(Get(irs990, "WebsiteAddressTxt")),
                        extractText(Get(irs990, "WebSite"))),
                     JsNull),
      mission |-> Or(Or(extractText(Get(irs990, "ActivityOrMissionDesc")),
                        extractText(Get(irs990, "MissionDesc"))),
                     JsNull)]

extractFinancialData(irs990) ==
  [currentRevenue |-> extractNumber(
     Or(Or(Or(Or(Get(irs990, "CYTotalRevenueAmt"),
                 Get(irs990, "TotalRevenueAmt")),
              Get(Get(irs990, "TotalRevenueGrp"), "TotalRevenueColumnAmt")),
           Get(irs990, "RevenueAmt")),
        Get(irs990, "TotalRevenue"))),
   currentExpenses |-> extractNumber(
     Or(Or(Or(Or(Get(irs990, "CYTotalExpensesAmt"),
                 Get(irs990, "TotalExpensesAmt")),
              Get(Get(irs990, "TotalExpensesGrp"), "TotalExpensesColumnAmt")),
           Get(irs990, "ExpensesAmt")),
        Get(irs990, "TotalExpenses"))),
   currentAssets |-> extractNumber(
     Or(Or(Or(Get(irs990, "TotalAssetsEOYAmt"),
              Get(Get(irs990, "TotalAssetsGrp"), "EOYAmt")),
           Get(Get(irs990, "Form990TotalAssetsGrp"), "EOYAmt")),
        Get(irs990, "TotalAssets"))),
   currentEmployeeCount |-> extractNumber(
     Or(Or(Get(irs990, "TotalEmployeeCnt"),
           Get(irs990, "TotalNbrEmployees")),
        Get(irs990, "NumberOfEmployees"))),
   previousRevenue |-> extractNumber(
     Or(Or(Get(irs990, "PYTotalRevenueAmt"),
           Get(Get(irs990, "TotalRevenueGrp"), "PriorYearAmt")),
        JsNum(0))),
   previousExpenses |-> extractNumber(
     Or(Or(Get(irs990, "PYTotalExpensesAmt"),
           Get(Get(irs990, "TotalExpensesGrp"), "PriorYearAmt")),
        JsNum(0))),
   previousAssets |-> extractNumber(
     Or(Or(Or(Get(irs990, "TotalAssetsBOYAmt"),
              Get(Get(irs990, "TotalAssetsGrp"), "BOYAmt")),
           Get(Get(irs990, "Form990TotalAssetsGrp"), "BOYAmt")),
        JsNum(0))),
   previousEmployeeCount |-> extractNumber(
     Or(Get(irs990, "PYTotalEmployeeCnt"), JsNum(0)))]

\* One pass of the forEach callback: the personnel array after the officer.
\* `${a} ${b}`.trim() of two extractText results: neither text of the trees
\* below starts or ends with white space, so trim() removes nothing.
extractOfficer(acc, officer) ==
  IF ~IsTruthy(officer) THEN acc
  ELSE
    LET personName == Or(Or(Get(officer, "PersonNm"), Get(officer, "Name")),
                         Get(officer, "PersonName"))
        firstLast == JsStr(String(extractText(Get(personName, "FirstName"))) \o " "
                           \o String(extractText(Get(personName, "LastName"))))
        fullName == Or(extractText(personName), firstLast)
        title == Or(Or(extractText(Get(officer, "TitleTxt")),
                       extractText(Get(officer, "Title"))),
                    JsStr("Unknown"))
        reportableComp == extractNumber(
          Or(Or(Or(Get(officer, "ReportableCompFromOrgAmt"),
                   Get(officer, "TotalCompensationFilingOrgAmt")),
                Get(officer, "Compensation")),
             JsNum(0)))
        otherComp == extractNumber(Or(Get(officer, "OtherCompensationAmt"), JsNum(0)))
        relatedComp == extractNumber(Or(Get(officer, "ReportableCompFromRltdOrgAmt"), JsNum(0)))
        compensation == JsNum(reportableComp.n + otherComp.n + relatedComp.n)
    IN IF IsTruthy(fullName) /\ fullName # JsStr("Unknown")
       THEN Append(acc, [fullName |-> fullName, title |-> title,
                         compensation |-> compensation])
       ELSE acc

RECURSIVE ForEachOfficer(_, _)
ForEachOfficer(acc, officers) ==
  IF officers = <<>> THEN acc
  ELSE ForEachOfficer(extractOfficer(acc, Head(officers)), Tail(officers))

extractPersonnel(irs990) ==
  LET officersList == Or(Or(Or(Get(irs990, "Form990PartVIISectionAGrp"),
                               Get(irs990, "OfficerDirectorTrusteeEmplGrp")),
                            Get(irs990, "Officers")),
                         JsArr(<<>>))
      officers == IF officersList.t = "array" THEN officersList.a ELSE <<officersList>>
  IN ForEachOfficer(<<>>, officers)

\* The expenseCategories literal of extractExpenses, in the order of its keys:
\* the category name and the three field names of its chain.
ExpenseFields ==
  << <<"Grants and similar amounts paid", "GrantsToDomesticOrgsAmt",
       "GrantsToDomesticOrgsGrp", "GrantsAndSimilarAmountsPaid">>,
     <<"Compensation of officers", "CompCurrentOfcrDirectorsAmt",
       "CompCurrentOfcrDirectorsGrp", "CompensationOfOfficers">>,
     <<"Other salaries and wages", "CompDisqualPersonsAmt",
       "OtherSalariesAndWagesGrp", "OtherSalariesAndWages">>,
     <<"Pension and benefits", "EmployeeBenefitsAmt",
       "PensionPlanContributionsGrp", "PensionPlanContributions">>,
     <<"Legal fees", "LegalFeesAmt", "FeesForServicesLegalGrp", "LegalFees">>,
     <<"Accounting fees", "AccountingFeesAmt",
       "FeesForServicesAccountingGrp", "AccountingFees">>,
     <<"Professional fundraising fees", "ProfessionalFundraisingAmt",
       "FundraisingFeesGrp", "FundraisingFees">>,
     <<"Other professional fees", "OtherProfessionalFeesAmt",
       "FeesForServicesOtherGrp", "OtherProfessionalFees">>,
     <<"Occupancy", "OccupancyAmt", "OccupancyGrp", "Occupancy">>,
     <<"Travel", "TravelAmt", "TravelGrp", "Travel">>,
     <<"Office expenses", "OfficeExpensesAmt", "OfficeExpensesGrp", "OfficeExpenses">>,
     <<"Depreciation", "DepreciationDepletionAmt", "DepreciationGrp", "Depreciation">> >>

\* The value the literal holds under the category of entry f.
expenseCategories(irs990, f) ==
  Or(Or(Or(Get(irs990, f[2]), Get(Get(irs990, f[3]), "TotalAmt")), Get(irs990, f[4])),
     JsNum(0))

\* The record extractExpenses pushes for an amount, if it pushes one.
PushExpense_m(list, category, expenseAmount) ==
  Append(list, [category |-> JsStr(category), amount |-> expenseAmount])
PushExpense(list, category, expenseAmount) ==
  IF expenseAmount.n > 0
  THEN Append(list, [category |-> JsStr(category), amount |-> expenseAmount])
  ELSE list

RECURSIVE ForEachCategory(_, _, _)
ForEachCategory(list, irs990, fields) ==
  IF fields = <<>> THEN list
  ELSE ForEachCategory(
         PushExpense(list, Head(fields)[1],
                     extractNumber(expenseCategories(irs990, Head(fields)))),
         irs990, Tail(fields))

extractExpenses(irs990) == ForEachCategory(<<>>, irs990, ExpenseFields)

\* Form990Parser.parse from the tree this.parser.parse(xmlContent) returned.
\* No step of it throws on the trees below, so the catch is not entered.
ParseNull == [returned |-> TRUE, null |-> TRUE]
parseTree(parsed) ==
  LET nested == Get(Get(parsed, "Return"), "ReturnData")
      returnData == IF ~IsTruthy(nested) THEN Get(parsed, "Return") ELSE nested
      irs990 == Or(Or(Or(Get(returnData, "IRS990"), Get(returnData, "IRS990EZ")),
                      Get(returnData, "IRS990PF")),
                   Get(returnData, "IRS990T"))
      companyData == extractCompanyInfo(parsed, irs990)
      financialData == extractFinancialData(irs990)
  IN IF ~IsTruthy(returnData) THEN ParseNull
     ELSE IF ~IsTruthy(irs990) THEN ParseNull
     ELSE IF ~IsTruthy(companyData.ein) THEN ParseNull
     ELSE [returned |-> TRUE, null |-> FALSE,
           company |-> [k \in DOMAIN companyData \cup DOMAIN financialData |->
                          IF k \in DOMAIN financialData THEN financialData[k]
                          ELSE companyData[k]],
           personnel |-> extractPersonnel(irs990),
           expenses |-> extractExpenses(irs990)]
(* --------------------------- trees handed to parse --------------------- *)
\* v.a.b for the path <<a, b>>, with ?. at every step.
RECURSIVE At(_, _)
At(v, path) == IF path = <<>> THEN v ELSE At(Get(v, Head(path)), Tail(path))

VariantKeys == {"IRS990", "IRS990EZ", "IRS990PF", "IRS990T"}

\* The field names extractFinancialData reads for each quantity, in the order
\* of its || chain (the literal 0 that ends the previous-year chains left out).
FinancialChains ==
  [currentRevenue |-> << <<"CYTotalRevenueAmt">>, <<"TotalRevenueAmt">>,
                         <<"TotalRevenueGrp", "TotalRevenueColumnAmt">>,
                         <<"RevenueAmt">>, <<"TotalRevenue">> >>,
   currentExpenses |-> << <<"CYTotalExpensesAmt">>, <<"TotalExpensesAmt">>,
                          <<"TotalExpensesGrp", "TotalExpensesColumnAmt">>,
                          <<"ExpensesAmt">>, <<"TotalExpenses">> >>,
   currentAssets |-> << <<"TotalAssetsEOYAmt">>, <<"TotalAssetsGrp", "EOYAmt">>,
                        <<"Form990TotalAssetsGrp", "EOYAmt">>, <<"TotalAssets">> >>,
   currentEmployeeCount |-> << <<"TotalEmployeeCnt">>, <<"TotalNbrEmployees">>,
                               <<"NumberOfEmployees">> >>,
   previousRevenue |-> << <<"PYTotalRevenueAmt">>, <<"TotalRevenueGrp", "PriorYearAmt">> >>,
   previousExpenses |-> << <<"PYTotalExpensesAmt">>, <<"TotalExpensesGrp", "PriorYearAmt">> >>,
   previousAssets |-> << <<"TotalAssetsBOYAmt">>, <<"TotalAssetsGrp", "BOYAmt">>,
                         <<"Form990TotalAssetsGrp", "BOYAmt">> >>,
   previousEmployeeCount |-> << <<"PYTotalEmployeeCnt">> >>]
Quantities == DOMAIN FinancialChains

\* The element that holds value f[i] under the i-th path of the chain, for
\* every i in DOMAIN f, and nothing else; no two paths of a chain share their
\* first name.
ChainTree(chain, f) ==
  JsObj([k \in {chain[i][1] : i \in DOMAIN f} |->
           LET i == CHOOSE j \in DOMAIN f : chain[j][1] = k
           IN IF Len(chain[i]) = 1 THEN f[i]
              ELSE JsObj([k2 \in {chain[i][2]} |-> f[i]])])

\* Return.ReturnHeader with or without Filer.EIN.
Header(hasEin) ==
  JsObj([Filer |-> IF hasEin THEN JsObj([EIN |-> JsNum(1)]) ELSE JsObj(<<>>)])

\* The tree of a document whose form elements are the function forms (key to
\* sub-tree), found under Return.ReturnData, or directly under Return where the
\* document has no ReturnData element.
Document(wrapped, forms, hasEin) ==
  JsObj([Return |->
    IF wrapped
    THEN JsObj([ReturnHeader |-> Header(hasEin), ReturnData |-> JsObj(forms)])
    ELSE JsObj([k \in DOMAIN forms \cup {"ReturnHeader"} |->
                  IF k = "ReturnHeader" THEN Header(hasEin) ELSE forms[k]])])
\* A Form 990 filing with one form element.
Filing(key, irs990) == Document(TRUE, [k \in {key} |-> irs990], TRUE)

\* Documents with any of the four form elements; the element of a variant
\* gives the variant's key as its website, and nothing else.
VariantTree(wrapped, present, hasEin) ==
  Document(wrapped, [k \in present |-> JsObj([WebsiteAddressTxt |-> JsStr(k)])], hasEin)

\* Documents that give one financial quantity under any of its field names:
\* each name absent, or present with the value 0 or a positive amount.
FinancialTree(key, q, f) ==
  Filing(key, ChainTree(FinancialChains[q], [i \in DOMAIN f |-> JsNum(f[i])]))

\* Officer entries of Part VII: the name given as one text (PersonNm), as an
\* element with FirstName and/or LastName, or not given for a person at all
\* (the entry names an organization under BusinessName, or nobody); with a
\* title and a compensation amount, or without both.
PersonNames ==
  {JsStr("Ann Lee"), JsStr("Unknown")}
    \cup {JsObj([k \in parts |-> IF k = "FirstName" THEN JsStr("Ann") ELSE JsStr("Lee")]) :
            parts \in SUBSET {"FirstName", "LastName"}}
OfficerKeys ==
  {who \cup rest : who \in {{}, {"PersonNm"}, {"BusinessName"}},
                   rest \in {{}, {"TitleTxt", "ReportableCompFromOrgAmt"}}}
Officers ==
  {JsObj([k \in keys |->
      CASE k = "PersonNm" -> nm
        [] k = "BusinessName" -> JsObj([BusinessNameLine1Txt |-> JsStr("Acme Trust")])
        [] k = "TitleTxt" -> JsStr("Director")
        [] k = "ReportableCompFromOrgAmt" -> JsNum(100)]) :
     nm \in PersonNames, keys \in OfficerKeys}
\* The officers element as fast-xml-parser gives it: absent for no entry, the
\* entry itself for one, an array for more.
PersonnelTree(list) ==
  Filing("IRS990",
         IF Len(list) = 0 THEN JsObj(<<>>)
         ELSE JsObj([Form990PartVIISectionAGrp |->
                       IF Len(list) = 1 THEN list[1] ELSE JsArr(list)]))

\* Documents that give one expense category under any of its three field
\* names (absent, zero, negative or positive), and the next category of the
\* literal under its first field name.
ExpenseChain(f) == << <<f[2]>>, <<f[3], "TotalAmt">>, <<f[4]>> >>
ExpenseTree(c, f, other) ==
  LET chain == ExpenseChain(ExpenseFields[c])
      next == ExpenseFields[(c % Len(ExpenseFields)) + 1][2]
      one == ChainTree(chain, [i \in DOMAIN f |-> JsNum(f[i])]).o
  IN Filing("IRS990",
            JsObj([k \in DOMAIN one \cup (IF other = {} THEN {} ELSE {next}) |->
                     IF k = next THEN JsNum(CHOOSE a \in other : TRUE) ELSE one[k]]))

(* ------------------------- processXmlFile: the mapper ------------------ *)
\* The tree goes through Form990Parser.parse.
Handed(parsed) ==
  /\ tree' = [given |-> TRUE, parsed |-> parsed]
  /\ mapped' = parseTree(parsed)

\* this.parser.parse(xmlContent) of processXmlFile for one document, the
\* document being one of the four kinds above.
parseDocument ==
  /\ tree = NoTree
  /\ \/ \E wrapped \in BOOLEAN, present \in SUBSET VariantKeys, hasEin \in BOOLEAN :
          Handed(VariantTree(wrapped, present, hasEin))
     \/ \E key \in {"IRS990", "IRS990EZ"}, q \in Quantities :
          \E P \in SUBSET DOMAIN FinancialChains[q] :
            \E f \in [P -> {0, 5, 9}] : Handed(FinancialTree(key, q, f))
     \/ \E n \in 0..MaxOfficers :
          \E list \in [1..n -> Officers] : Handed(PersonnelTree(list))
     \/ \E c \in DOMAIN ExpenseFields, other \in {{}, {0}, {4}}, P \in SUBSET (1..3) :
          \E f \in [P -> {0, -3, 4}] : Handed(ExpenseTree(c, f, other))
  /\ UNCHANGED <<savers, ingestVars, analyticsVars, authVars>>

NextParser == parseDocument

SpecParser == Init /\ [][NextParser]_vars

(* --------------------------- reading a mapper call --------------------- *)
\* parse returned a canonical record for the tree it was handed.
Mapped == mapped.returned /\ ~mapped.null
\* The element that carries the form: Return.ReturnData, or Return itself
\* where the document has no ReturnData.
Payload == Or(At(tree.parsed, <<"Return", "ReturnData">>), Get(tree.parsed, "Return"))
PresentVariants == {k \in VariantKeys : IsTruthy(Get(Payload, k))}
\* The priority order of the variants, and the formType of each.
VariantOrder == <<"IRS990", "IRS990EZ", "IRS990PF", "IRS990T">>
FirstVariant ==
  VariantOrder[CHOOSE i \in DOMAIN VariantOrder :
                 /\ VariantOrder[i] \in PresentVariants
                 /\ \A j \in 1..(i - 1) : VariantOrder[j] \notin PresentVariants]
FormTypeOf(key) ==
  CASE key = "IRS990" -> "990"
    [] key = "IRS990EZ" -> "990EZ"
    [] key = "IRS990PF" -> "990PF"
    [] key = "IRS990T" -> "990T"
\* The form element extraction read from is the one of variant key: the
\* record's website is the one that element gives.
ExtractedFrom(key) ==
  /\ IsTruthy(At(Payload, <<key, "WebsiteAddressTxt">>))
  /\ mapped.company.website = At(Payload, <<key, "WebsiteAddressTxt">>)

\* The form element parse selects, and the positions of quantity q's chain
\* under which a form element gives a value.
SelectedForm == Get(Payload, FirstVariant)
Supplied(form, q) ==
  {i \in DOMAIN FinancialChains[q] : At(form, FinancialChains[q][i]) # JsUndefined}

\* The officer entries of the selected form element, and whether an entry
\* gives a person's name: a composed name text, or a first or last name.
OfficerEntries ==
  LET list == Get(SelectedForm, "Form990PartVIISectionAGrp")
  IN IF list = JsUndefined THEN <<>>
     ELSE IF list.t = "array" THEN list.a ELSE <<list>>
NameResolvable(officer) ==
  LET personName == Get(officer, "PersonNm")
  IN \/ personName.t = "string" /\ personName.s # ""
     \/ IsTruthy(Get(personName, "FirstName"))
     \/ IsTruthy(Get(personName, "LastName"))

\* The values a form element gives under the three field names of category c.
ExpenseSupplied(form, c) ==
  {At(form, ExpenseChain(ExpenseFields[c])[i]) : i \in 1..3}

(* ------------------------------- helpers ------------------------------- *)
Finished == pc \in {"returned", "failed"}
MappingFailures == {"malformed", "noform", "noein"}

PersonnelFor(id) == SelectSeq(personnel, LAMBDA r : r.companyId = id)
ExpensesFor(id) == SelectSeq(expenses, LAMBDA r : r.companyId = id)
RowsWithEin(e) == {r \in companies : r.ein = e}

\* The canonical record of the filing (e, v).
RecordOf(e, v) ==
  parse([readable |-> TRUE, wellFormed |-> TRUE, hasForm |-> TRUE, ein |-> e, ver |-> v])

\* The four metrics of a companies row and their columns.
Metrics == {"revenue", "expenses", "assets", "employees"}
Current(d, m) ==
  CASE m = "revenue" -> d.currentRevenue
    [] m = "expenses" -> d.currentExpenses
    [] m = "assets" -> d.currentAssets
    [] m = "employees" -> d.currentEmployeeCount
Previous(d, m) ==
  CASE m = "revenue" -> d.previousRevenue
    [] m = "expenses" -> d.previousExpenses
    [] m = "assets" -> d.previousAssets
    [] m = "employees" -> d.previousEmployeeCount
\* The record has no prior-year data: some previous-year column is null.
AnyPreviousNull(d) == \E m \in Metrics : Previous(d, m) = Null
\* The handler read a row and computed its deltas.
RowServed == served # "none" /\ company # NoRow /\ deltas.computed

\* The request carries the configured secret key or a JWT that verifyToken
\* accepts and whose role is 'admin'.
Authorized(r) == r.key = "secret" \/ (r.token \in tokens /\ r.token.role = "admin")
DatasetRequest == authRes.route = "POST /api/dataset"

(* ---------------- saveToDatabase calls of concurrent requests ---------- *)
\* Two POST /api/dataset requests run at once, each with its own
\* DatasetService over the same tables; each is followed through one
\* saveToDatabase call, whose awaited statements are the steps. The other
\* request's steps may come between any two of them.
RunUnchanged ==
  UNCHANGED <<pc, cap, tempPath, extractPath, archiveFile, extractDir, xmlFiles,
              filesToProcess, idx, stats, xmlContent, data, companyId, response,
              outcomes, lastCall, prevCall, lastFor, tree, mapped,
              analyticsVars, authVars>>

\* processXmlFile of request p reaches saveToDatabase with a mapped record.
concurrent_call(p) ==
  /\ savers[p].pc = "idle"
  /\ \E e \in Eins, v \in Vers :
       savers' = [savers EXCEPT ![p] = [pc |-> "upsert", data |-> RecordOf(e, v),
                                        companyId |-> 0]]
  /\ UNCHANGED <<companies, personnel, expenses, nextId>>
  /\ RunUnchanged

concurrent_upsert(p) ==
  /\ savers[p].pc = "upsert"
  /\ LET d == savers[p].data IN
     /\ companies' = Upsert(companies, d.company, nextId)
     /\ nextId' = IF \E r \in companies : r.ein = d.company.ein THEN nextId ELSE nextId + 1
     /\ savers' = [savers EXCEPT ![p].pc = "destroyPersonnel",
                                 ![p].companyId = RowWithEin(companies', d.company.ein).id]
  /\ UNCHANGED <<personnel, expenses>>
  /\ RunUnchanged

concurrent_destroyPersonnel(p) ==
  /\ savers[p].pc = "destroyPersonnel"
  /\ personnel' = Destroy(personnel, savers[p].companyId)
  /\ savers' = [savers EXCEPT ![p].pc = "destroyExpenses"]
  /\ UNCHANGED <<companies, expenses, nextId>>
  /\ RunUnchanged

concurrent_destroyExpenses(p) ==
  /\ savers[p].pc = "destroyExpenses"
  /\ expenses' = Destroy(expenses, savers[p].companyId)
  /\ savers' = [savers EXCEPT ![p].pc =
                  IF Len(savers[p].data.personnel) > 0 THEN "bulkPersonnel"
                  ELSE IF Len(savers[p].data.expenses) > 0 THEN "bulkExpenses"
                  ELSE "done"]
  /\ UNCHANGED <<companies, personnel, nextId>>
  /\ RunUnchanged

concurrent_bulkPersonnel(p) ==
  /\ savers[p].pc = "bulkPersonnel"
  /\ personnel' = BulkCreate(personnel, PersonnelRows(savers[p].data, savers[p].companyId))
  /\ savers' = [savers EXCEPT ![p].pc =
                  IF Len(savers[p].data.expenses) > 0 THEN "bulkExpenses" ELSE "done"]
  /\ UNCHANGED <<companies, expenses, nextId>>
  /\ RunUnchanged

concurrent_bulkExpenses(p) ==
  /\ savers[p].pc = "bulkExpenses"
  /\ expenses' = BulkCreate(expenses, ExpenseRows(savers[p].data, savers[p].companyId))
  /\ savers' = [savers EXCEPT ![p].pc = "done"]
  /\ UNCHANGED <<companies, personnel, nextId>>
  /\ RunUnchanged

NextConcurrent ==
  \/ \E p \in Savers : concurrent_call(p)
  \/ \E p \in Savers : concurrent_upsert(p)
  \/ \E p \in Savers : concurrent_destroyPersonnel(p)
  \/ \E p \in Savers : concurrent_destroyExpenses(p)
  \/ \E p \in Savers : concurrent_bulkPersonnel(p)
  \/ \E p \in Savers : concurrent_bulkExpenses(p)

SpecConcurrent == Init /\ [][NextConcurrent]_vars

(* ------------------------------- claims -------------------------------- *)

\* C1: once the per-document loop has taken up a document, the run ends by
\* returning statistics and the caller gets a 200 response; no document
\* failure makes processDataset throw.
C1_ProcessingAlwaysCompletes ==
  (Finished /\ stats.processed > 0) => (pc = "returned" /\ response.status = 200)

\* C2: on every exit path of processDataset the downloaded archive and the
\* expanded working directory have been removed.
C2_CleanupOnEveryExit ==
  Finished => (~archiveFile /\ ~extractDir)

\* C3: when saveToDatabase throws for a mapped document, one error message is
\* appended to the run's error list, saved is unchanged and the loop goes on
\* to the next candidate document.
C3_SaveFailureRecorded ==
  [][ (pc \in SavePcs /\ pc' \notin SavePcs /\ stats'.saved = stats.saved)
        => /\ stats'.errors.isArray
           /\ Len(stats'.errors.items) = Len(stats.errors.items) + 1
           /\ pc' = "loop"
           /\ idx' = idx + 1 ]_vars

\* C4: at every point of a run and in the returned statistics,
\* saved <= processed <= totalFiles; without a cap, processed = totalFiles
\* when the run completes.
C4_CounterOrder ==
  /\ stats.saved <= stats.processed
  /\ stats.processed <= stats.totalFiles
  /\ (pc = "returned" /\ cap = 0) => stats.processed = stats.totalFiles
  /\ response.status = 200 =>
       /\ response.statistics.saved <= response.statistics.processed
       /\ response.statistics.processed <= response.statistics.totalFiles
       /\ cap = 0 => response.statistics.processed = response.statistics.totalFiles

C4_Witness ==
  /\ pc = "returned"
  /\ cap = 0
  /\ stats.totalFiles >= 2
  /\ stats.saved >= 1
  /\ stats.saved < stats.processed

\* C5: saveToDatabase applied twice in sequence with the identical record
\* leaves exactly one organization row for the ein, and the organization's
\* personnel and expense rows are exactly the record's rows (not the sum of
\* the two calls).
C5_SaveIdempotent ==
  (lastCall.status = "ok" /\ prevCall.status = "ok"
     /\ prevCall.ein = lastCall.ein /\ prevCall.name = lastCall.name)
  => /\ Cardinality(RowsWithEin(lastCall.ein)) = 1
     /\ \A r \in RowsWithEin(lastCall.ein) :
          /\ r.name = data.company.name
          /\ PersonnelFor(r.id) = PersonnelRows(data, r.id)
          /\ ExpensesFor(r.id) = ExpenseRows(data, r.id)
          /\ Len(PersonnelFor(r.id)) = Len(data.personnel)
          /\ Len(ExpensesFor(r.id)) = Len(data.expenses)

C5_Witness ==
  /\ lastCall.status = "ok"
  /\ prevCall = lastCall
  /\ Len(data.personnel) > 0
  /\ Len(data.expenses) > 0

\* C6: after any sequence of saveToDatabase calls there is at most one
\* organization row per ein, and for each ein whose latest call returned, the
\* row's scalar fields and its personnel and expense rows are exactly those
\* of that latest record.
C6_LastRecordWins ==
  /\ \A r1, r2 \in companies : r1.ein = r2.ein => r1 = r2
  /\ \A e \in Eins :
       lastFor[e].status = "ok" =>
         /\ RowsWithEin(e) # {}
         /\ \A r \in RowsWithEin(e) :
              LET rec == RecordOf(e, lastFor[e].name) IN
              /\ r.name = rec.company.name
              /\ r.taxYear = rec.company.taxYear
              /\ PersonnelFor(r.id) = PersonnelRows(rec, r.id)
              /\ ExpensesFor(r.id) = ExpenseRows(rec, r.id)

C6_Witness ==
  /\ pc = "returned"
  /\ Len(outcomes) >= 2
  /\ outcomes[1] = "saved"
  /\ outcomes[2] = "saved"
  /\ prevCall.ein = lastCall.ein
  /\ prevCall.name > lastCall.name

\* C7: the replacement of an organization's children is atomic: whenever a
\* step changes the personnel or expense rows of an organization that has
\* child rows, the rows after the step are the complete new child set of the
\* record being saved (the old rows never go without the new ones arriving).
C7_ChildReplaceAtomic ==
  [][ \A id \in 1..NumEin :
        ( /\ PersonnelFor(id) \o ExpensesFor(id) # <<>>
          /\ (PersonnelFor(id)' # PersonnelFor(id) \/ ExpensesFor(id)' # ExpensesFor(id)) )
          => /\ PersonnelFor(id)' = PersonnelRows(data, id)
             /\ ExpensesFor(id)' = ExpenseRows(data, id) ]_vars

\* C8: a document whose mapping fails (no form variant, no EIN, malformed
\* markup) makes parse return null; the step writes nothing to the database,
\* leaves saved unchanged and the loop goes on with the next candidate.
C8_MappingFailureSkipped ==
  [][ (pc = "loop" /\ idx <= Len(filesToProcess)
         /\ xmlContent'.readable
         /\ (~xmlContent'.wellFormed \/ ~xmlContent'.hasForm \/ xmlContent'.ein = 0))
        => /\ parse(xmlContent').isNull
           /\ companies' = companies
           /\ personnel' = personnel
           /\ expenses' = expenses
           /\ stats'.saved = stats.saved
           /\ pc' = "loop"
           /\ idx' = idx + 1 ]_vars

C8_Witness ==
  /\ pc = "returned"
  /\ Len(outcomes) = 3
  /\ outcomes[1] \in MappingFailures
  /\ outcomes[2] \in MappingFailures
  /\ outcomes[1] # outcomes[2]
  /\ outcomes[3] = "saved"
  /\ companies # {}

\* C9: every document whose mapping fails contributes one entry to the
\* statistics' error list, so the number of recorded errors is
\* processed - saved when the run completes.
C9_ErrorsCountFailures ==
  pc = "returned" =>
    /\ stats.errors.isArray
    /\ Len(stats.errors.items) = stats.processed - stats.saved

\* C10: while the archive has not been downloaded and expanded, no document
\* is read, mapped or persisted and no statistics are returned; a failure of
\* the download or of the expansion surfaces as the single response 500.
C10_FatalAbort ==
  ~extractPath =>
    /\ stats.processed = 0
    /\ xmlContent = NoDoc
    /\ outcomes = <<>>
    /\ companies = {} /\ personnel = <<>> /\ expenses = <<>>
    /\ pc \in {"idle", "rejected", "downloading", "extracting", "failed"}
    /\ response.status # 200
    /\ pc = "failed" => response = [status |-> 500]

C10_Witness ==
  /\ pc = "failed"
  /\ tempPath
  /\ ~extractPath
  /\ response.status = 500

\* C11: when a maximum count m is supplied (cap # 0), the candidate list is
\* truncated to its first m documents before the loop begins: filesToProcess
\* is the prefix of xmlFiles of at most m files, the loop never takes up a
\* file beyond it, and processed <= m and saved <= m throughout the run.
C11_CapTruncates ==
  (cap # 0 /\ pc \notin {"idle", "rejected", "downloading", "extracting", "enumerating"}) =>
     /\ Len(filesToProcess) = Min(cap, Len(xmlFiles))
     /\ filesToProcess = SubSeq(xmlFiles, 1, Len(filesToProcess))
     /\ Len(outcomes) + (IF pc \in SavePcs THEN 1 ELSE 0) = stats.processed
     /\ stats.processed <= cap
     /\ stats.saved <= cap
     /\ Cardinality(companies) <= cap

\* A run with a cap smaller than the archive that took up cap documents.
C11_Witness ==
  /\ cap # 0
  /\ Len(xmlFiles) > cap
  /\ pc = "returned"
  /\ stats.processed = cap
  /\ stats.saved < cap

\* C12: the error messages returned to the caller are a bounded sample:
\* whatever the number of per-document failures, neither response.errors nor
\* response.statistics.errors carries more than ErrorSample (10) messages, and
\* what is carried are the first messages of the run's error list.
C12_ErrorSampleBounded ==
  (pc = "returned" /\ response.status = 200) =>
     /\ Len(response.errors) <= ErrorSample
     /\ Len(response.statistics.errors) <= ErrorSample
     /\ response.errors = SubSeq(stats.errors.items, 1, Len(response.errors))
     /\ response.statistics.errors = SubSeq(stats.errors.items, 1, Len(response.statistics.errors))

\* A run answered 200 in which more than ErrorSample documents failed.
C12_Witness ==
  /\ pc = "returned"
  /\ response.status = 200
  /\ stats.processed - stats.saved > ErrorSample
  /\ Len(outcomes) > ErrorSample

\* C13: in getAllCompanies and in getCompanyById, a row with any previous-year
\* column null gets the pair (null, null) for all four metrics, a row with
\* none null gets four pairs without a null; a response that carries deltas
\* carries these, so it never mixes computed and null pairs.
C13_UniformNullGating ==
  RowServed =>
    /\ AnyPreviousNull(company) => \A m \in Metrics : deltas[m] = NullDelta
    /\ ~AnyPreviousNull(company) =>
         \A m \in Metrics : ~deltas[m].absolute.null /\ ~deltas[m].percentage.null
    /\ reply.status = 200 => reply.deltas = deltas

\* The listing answered for a row whose only null column is previousAssets.
C13_Witness ==
  /\ served = "getAllCompanies"
  /\ reply.status = 200
  /\ company.previousAssets = Null
  /\ company.previousRevenue = 120000
  /\ company.previousExpenses = 100000
  /\ company.previousEmployeeCount = 40
  /\ reply.deltas.revenue = NullDelta

\* C14: for a row with prior-year data, the percentage delta of each metric
\* is 100 (current > 0) or 0 when previous = 0, and otherwise the number
\* (current - previous) / previous * 100; the absolute delta is
\* current - previous.
C14_DeltaArithmetic ==
  (RowServed /\ ~AnyPreviousNull(company)) =>
    \A m \in Metrics :
      LET c == Current(company, m)
          p == Previous(company, m)
          pct == deltas[m].percentage
      IN /\ ~pct.null /\ pct.d > 0
         /\ IF p = 0
              THEN pct.n = (IF c > 0 THEN 100 ELSE 0) * pct.d
              ELSE pct.n * p = (c - p) * 100 * pct.d
         /\ deltas[m].absolute = Number(c - p)

\* Revenue grew from nothing (100) while the headcount went from 40 to 42 (5).
C14_Witness ==
  /\ RowServed
  /\ ~AnyPreviousNull(company)
  /\ company.previousRevenue = 0 /\ company.currentRevenue = 150000
  /\ deltas.revenue.percentage = Number(100)
  /\ company.previousAssets = 0 /\ company.currentAssets = 0
  /\ deltas.assets.percentage = Number(0)
  /\ company.previousEmployeeCount = 40 /\ company.currentEmployeeCount = 42
  /\ deltas.employees.percentage = Number(5)
  /\ deltas.employees.absolute = Number(2)

\* C15: calculateClassification labels a row with prior-year data
\* 'Profitable' if currentRevenue > currentExpenses and the expense growth
\* does not exceed the revenue growth, otherwise 'Scaling' if the expense
\* growth exceeds the revenue growth, otherwise 'Restructuring'.
C15_ClassificationPrecedence ==
  (served = "getCompanyById" /\ reply.status = 200) =>
    LET rg == deltas.revenue.percentage
        eg == deltas.expenses.percentage
        expensesFaster == eg.n * rg.d > rg.n * eg.d
        label == reply.analytics.classification
    IN /\ label \in {"Profitable", "Scaling", "Restructuring"}
       /\ label = "Profitable" <=>
            (company.currentRevenue > company.currentExpenses /\ ~expensesFaster)
       /\ label = "Scaling" <=> expensesFaster
       /\ label = "Restructuring" <=>
            (company.currentRevenue <= company.currentExpenses /\ ~expensesFaster)

\* Revenue 120000 -> 150000 and expenses 100000 -> 90000: 'Profitable'.
C15_Witness ==
  /\ served = "getCompanyById"
  /\ reply.status = 200
  /\ company.previousRevenue = 120000 /\ company.currentRevenue = 150000
  /\ company.previousExpenses = 100000 /\ company.currentExpenses = 90000
  /\ deltas.revenue.percentage = Number(25)
  /\ deltas.expenses.percentage = Number(-10)
  /\ reply.analytics.classification = "Profitable"

\* C16: for a numeric employee percentage delta g, calculateStaffingGrowth
\* returns 'Rapid Growth' iff g >= 20, 'Steady Growth' iff 10 <= g < 20,
\* 'Modest Growth' iff 0 < g < 10, 'Stable' iff g = 0, 'Downsizing' iff g < 0.
C16_StaffingLadder ==
  (served = "getCompanyById" /\ reply.status = 200) =>
    LET g == deltas.employees.percentage
        badge == reply.analytics.staffingGrowth
    IN /\ staffingArg = [called |-> TRUE, arg |-> deltas.employees]
       /\ badge = "Rapid Growth" <=> g.n >= 20 * g.d
       /\ badge = "Steady Growth" <=> (g.n >= 10 * g.d /\ g.n < 20 * g.d)
       /\ badge = "Modest Growth" <=> (g.n > 0 /\ g.n < 10 * g.d)
       /\ badge = "Stable" <=> g.n = 0
       /\ badge = "Downsizing" <=> g.n < 0

\* Headcount 40 -> 50: 25 percent and 'Rapid Growth'.
C16_Witness ==
  /\ served = "getCompanyById"
  /\ reply.status = 200
  /\ company.previousEmployeeCount = 40 /\ company.currentEmployeeCount = 50
  /\ deltas.employees.percentage = Number(25)
  /\ reply.analytics.staffingGrowth = "Rapid Growth"

\* C17: in getCompanyById, for a row without prior-year data the null
\* employee percentage is never passed into the staffing ladder
\* (calculateStaffingGrowth is not invoked with it) and the response reports
\* none of the five badges.
C17_NullNeverEntersLadder ==
  (served = "getCompanyById" /\ RowServed /\ AnyPreviousNull(company)) =>
    /\ staffingArg.called => ~staffingArg.arg.percentage.null
    /\ reply.status = 200 =>
         reply.analytics.staffingGrowth \notin
           {"Rapid Growth", "Steady Growth", "Modest Growth", "Stable", "Downsizing"}

\* C18: in getCompanyById, financialHealth.assetGrowthRate is null whenever
\* the asset percentage delta is null: for an existing row without
\* prior-year data the endpoint answers 200 with assetGrowthRate = null.
C18_AssetGrowthPropagates ==
  (served = "getCompanyById" /\ RowServed /\ AnyPreviousNull(company)) =>
    /\ deltas.assets.percentage = NullValue
    /\ reply.status = 200
    /\ reply.analytics.financialHealth.assetGrowthRate = NullValue

C20_NoSelfElevation == \A u \in users : u.role # "admin"

\* C21: when the payload holds more than one of the variant keys, the
\* sub-tree used for extraction and the recorded formType are both those of
\* the first key present in the order 990, 990-EZ, 990-PF, 990-T.
C21_VariantPriority ==
  (Mapped /\ Cardinality(PresentVariants) > 1) =>
    /\ ExtractedFrom(FirstVariant)
    /\ mapped.company.formType = JsStr(FormTypeOf(FirstVariant))

\* C22: a document that gives the value v of a financial quantity under one
\* field name only, whichever position of the fallback chain that name has,
\* maps to v, as the document that gives v under the primary name does.
C22_FallbackEquivalence ==
  Mapped =>
    LET form == SelectedForm
    IN \A q \in Quantities : \A i \in DOMAIN FinancialChains[q] :
         Supplied(form, q) = {i} => mapped.company[q] = At(form, FinancialChains[q][i])
\* A positive value supplied only under the last name of a chain was mapped.
C22_Witness ==
  /\ Mapped
  /\ LET form == SelectedForm
     IN \E q \in Quantities :
          LET last == Len(FinancialChains[q])
          IN /\ last > 1
             /\ Supplied(form, q) = {last}
             /\ At(form, FinancialChains[q][last]).n > 0
             /\ mapped.company[q] = At(form, FinancialChains[q][last])

\* C23: an officer entry without a resolvable name (no composed name, no
\* first or last name) produces no personnel record: the mapper returns no
\* more records than the document has entries with a resolvable name.
C23_NamelessDiscarded ==
  Mapped =>
    LET entries == OfficerEntries
    IN Len(mapped.personnel)
         <= Cardinality({i \in DOMAIN entries : NameResolvable(entries[i])})

\* C24: every expense record of the mapper has an amount above 0 and a
\* category of the 12-name vocabulary, no category has two records, and a
\* category whose field names are all absent or zero has no record.
C24_ExpensesPositive ==
  Mapped =>
    LET form == SelectedForm
        list == mapped.expenses
        ExpenseVocabulary == {ExpenseFields[c][1] : c \in DOMAIN ExpenseFields}
        HasExpense(c) == \E i \in DOMAIN list : list[i].category.s = ExpenseFields[c][1]
    IN /\ Cardinality(ExpenseVocabulary) = 12
       /\ \A i \in DOMAIN list :
            /\ list[i].amount.n > 0
            /\ list[i].category.s \in ExpenseVocabulary
            /\ \A j \in DOMAIN list : list[j].category = list[i].category => j = i
       /\ \A c \in DOMAIN ExpenseFields :
            ExpenseSupplied(form, c) \subseteq {JsUndefined, JsNum(0)} => ~HasExpense(c)
\* A document gave one category a positive amount and another an explicit
\* zero or a negative amount: one record came out.
C24_Witness ==
  /\ Mapped
  /\ Len(mapped.expenses) = 1
  /\ mapped.expenses[1].amount.n > 0
  /\ LET form == SelectedForm
     IN \E c \in DOMAIN ExpenseFields :
          /\ mapped.expenses[1].category.s # ExpenseFields[c][1]
          /\ \E v \in ExpenseSupplied(form, c) : v # JsUndefined /\ v.n <= 0

\* C25: a document with a recognized form variant and an EIN is mapped
\* whatever else it lacks: a financial quantity given under none of its field
\* names is 0, a missing website, mission or filing date is null, the title of
\* an officer is 'Unknown' where no entry gives one, and the personnel and
\* expense lists are empty where the form gives no officer and no expense.
C25_SilentDefaults ==
  (tree.given /\ PresentVariants # {}
     /\ IsTruthy(At(tree.parsed, <<"Return", "ReturnHeader", "Filer", "EIN">>))) =>
    /\ Mapped
    /\ LET form == SelectedForm
           entries == OfficerEntries
       IN /\ \A q \in Quantities :
               Supplied(form, q) = {} => mapped.company[q] = JsNum(0)
          /\ (Get(form, "WebsiteAddressTxt") = JsUndefined /\ Get(form, "WebSite") = JsUndefined)
               => mapped.company.website = JsNull
          /\ (Get(form, "ActivityOrMissionDesc") = JsUndefined
                /\ Get(form, "MissionDesc") = JsUndefined)
               => mapped.company.mission = JsNull
          /\ (At(tree.parsed, <<"Return", "ReturnHeader", "ReturnTs">>) = JsUndefined
                /\ At(tree.parsed, <<"Return", "ReturnHeader", "ReturnTimestamp">>) = JsUndefined)
               => mapped.company.filingDate = JsNull
          /\ (\A i \in DOMAIN entries :
                Get(entries[i], "TitleTxt") = JsUndefined /\ Get(entries[i], "Title") = JsUndefined)
               => \A j \in DOMAIN mapped.personnel :
                    mapped.personnel[j].title = JsStr("Unknown")
          /\ entries = <<>> => mapped.personnel = <<>>
          /\ (\A c \in DOMAIN ExpenseFields : ExpenseSupplied(form, c) = {JsUndefined})
               => mapped.expenses = <<>>
\* A filing that gives an officer's name and nothing else was mapped to a
\* record of defaults.
C25_Witness ==
  /\ Mapped
  /\ Len(mapped.personnel) = 1
  /\ mapped.personnel[1].fullName = JsStr("Ann Lee")
  /\ mapped.personnel[1].title = JsStr("Unknown")
  /\ mapped.expenses = <<>>
  /\ mapped.company.currentRevenue = JsNum(0)
  /\ mapped.company.previousAssets = JsNum(0)
  /\ mapped.company.website = JsNull

\* C26: after two concurrent saveToDatabase calls for the same ein have both
\* finished, the organization's personnel and expense rows are exactly the
\* children of one of the two records, and of the same record as the row's
\* scalar fields.
C26_ConcurrentSavesReplace ==
  ((\A p \in Savers : savers[p].pc = "done")
     /\ savers[1].data.company.ein = savers[2].data.company.ein) =>
    \E p \in Savers :
      LET d == savers[p].data IN
      \A r \in RowsWithEin(d.company.ein) :
        /\ r.name = d.company.name
        /\ PersonnelFor(r.id) = PersonnelRows(d, r.id)
        /\ ExpensesFor(r.id) = ExpenseRows(d, r.id)

\* C27: where the first field name of a quantity's chain that the document
\* gives holds an explicit zero, the quantity maps to 0, whatever the names
\* after it in the chain hold.
C27_ExplicitZeroWins ==
  Mapped =>
    LET form == SelectedForm
    IN \A q \in Quantities : \A i \in Supplied(form, q) :
         (At(form, FinancialChains[q][i]) = JsNum(0) /\ \A j \in Supplied(form, q) : j >= i)
           => mapped.company[q] = JsNum(0)

\* C28: the formType of the record names the variant whose form element
\* parse selected for extraction, also where that element sits directly under
\* Return (stated for the documents that hold one form element).
C28_FormTypeNamesSelected ==
  Mapped =>
    \A k \in VariantKeys :
      (PresentVariants = {k} /\ ExtractedFrom(k))
        => mapped.company.formType = JsStr(FormTypeOf(k))

\* C29: with a cap m the early stop (saved >= m) is taken only after the
\* last document of the truncated list, every document before it having been
\* saved; a run that returns has taken up every document of the truncated
\* list; and a run in which a document of that list failed ends with
\* saved < m, also where the archive holds more than m documents.
C29_EarlyStopAtEnd ==
  cap # 0 =>
    /\ pc = "cleanup" =>
         /\ idx = Len(filesToProcess)
         /\ Len(outcomes) = Len(filesToProcess)
         /\ \A i \in DOMAIN outcomes : outcomes[i] = "saved"
    /\ pc = "returned" => Len(outcomes) = Len(filesToProcess)
    /\ (Finished /\ \E i \in DOMAIN outcomes : outcomes[i] # "saved") => stats.saved < cap
\* A capped run over a larger archive whose first document failed mapping and
\* whose last document of the truncated list was saved.
C29_Witness ==
  /\ cap > 1
  /\ Len(xmlFiles) > cap
  /\ pc = "returned"
  /\ Len(outcomes) = cap
  /\ outcomes[1] \in MappingFailures
  /\ outcomes[cap] = "saved"
  /\ stats.saved = cap - 1
\* C30: the loop takes up a document only while no saveToDatabase call of
\* the run is in progress, and takes the documents up in enumeration order;
\* and when a run returns whose last two saved documents bear the same ein,
\* the stored row and its children are those of the later one.
C30_SequentialLastWins ==
  [][ /\ stats'.processed > stats.processed =>
           /\ pc = "loop"
           /\ lastCall.status # "running"
           /\ idx = Len(outcomes) + 1
      /\ (pc' = "returned" /\ prevCall'.status = "ok" /\ lastCall'.status = "ok"
            /\ prevCall'.ein = lastCall'.ein) =>
           \A r \in companies' :
             r.ein = lastCall'.ein =>
               LET rec == RecordOf(r.ein, lastCall'.name) IN
               /\ r.name = rec.company.name
               /\ SelectSeq(personnel', LAMBDA x : x.companyId = r.id)
                    = PersonnelRows(rec, r.id)
               /\ SelectSeq(expenses', LAMBDA x : x.companyId = r.id)
                    = ExpenseRows(rec, r.id) ]_vars
\* A run returned after saving two documents of one ein with different
\* content, the later one being the newer version.
C30_Witness ==
  /\ pc = "returned"
  /\ Len(outcomes) >= 2
  /\ prevCall.status = "ok"
  /\ lastCall.status = "ok"
  /\ prevCall.ein = lastCall.ein
  /\ prevCall.name < lastCall.name
  /\ \E r \in companies : r.ein = lastCall.ein /\ r.name = lastCall.name

====
